---- MODULE Spec2Model ----
(***************************************************************************)
(* FormGroup (framework/core/js/src/admin/components/FormGroup.tsx).       *)
(*                                                                         *)
(* The component's view() turns a field descriptor (this.attrs) into a     *)
(* vnode tree.  The model keeps the descriptor object, the value cell the  *)
(* descriptor's `bidi` stream refers to, the keys contributed to           *)
(* customFieldComponents(), the id generator's counter and the result of   *)
(* the last render pass.                                                   *)
(*                                                                         *)
(* JavaScript values are records [t, v]: t is the typeof-like tag and v    *)
(* the payload as a sequence of words (a string is its space-separated     *)
(* words, so the empty string is <<>> and joining with a space is \o).     *)
(* An object of attributes is a function from key strings to such values;  *)
(* a vnode is [tag, attrs, children].                                      *)
(***************************************************************************)
EXTENDS Naturals, Sequences, FiniteSets, TLC

VARIABLES
  attrs,       \* this.attrs: the descriptor object the component was given
  cell,        \* the value held by the stream the descriptor's bidi refers to
  registry,    \* keys added to the ItemList customFieldComponents() returns
  nextId,      \* number of ids generateElementId() has handed out
  vnode,       \* what the last view() call returned
  invoked,     \* custom render functions called by the last view(): <<key, argument>>
  changed      \* TRUE when cell or registry changed since the last view()

vars == <<attrs, cell, registry, nextId, vnode, invoked, changed>>

MaxRenders == 2

---------------------------------------------------------------------------
(* JavaScript values *)

Undefined == [t |-> "undefined", v |-> <<>>]
Null == [t |-> "null", v |-> <<>>]
Str(words) == [t |-> "string", v |-> words]
S(word) == Str(<<word>>)
EmptyString == Str(<<>>)
True == [t |-> "boolean", v |-> <<"true">>]
False == [t |-> "boolean", v |-> <<"false">>]
Bool(b) == IF b THEN True ELSE False
Zero == [t |-> "number", v |-> <<"0">>]
BidiStream == [t |-> "function", v |-> <<"Stream">>]
OptionsObject == [t |-> "object", v |-> <<"options">>]

\* ToBoolean: what `!!x`, `x ? a : b`, `x && y` and `x || y` test.
Truthy(x) ==
  CASE x.t \in {"undefined", "null"} -> FALSE
    [] x.t = "string" -> x.v # <<>>
    [] x.t = "boolean" -> x.v = <<"true">>
    [] x.t = "number" -> x.v # <<"0">>
    [] OTHER -> TRUE

\* obj.key: undefined when the object has no such key.
Get(obj, key) == IF key \in DOMAIN obj THEN obj[key] ELSE Undefined

\* const { k1, k2, ...rest } = obj: a fresh object without the named keys.
Rest(obj, keys) == [k \in DOMAIN obj \ keys |-> obj[k]]

\* <Tag a={..} {...over} />: a later attribute replaces an earlier one.
Spread(base, over) ==
  [k \in DOMAIN base \cup DOMAIN over |-> IF k \in DOMAIN over THEN over[k] ELSE base[k]]

\* obj.key = val
Put(obj, key, val) == Spread(obj, key :> val)

El(tag, a, children) == [tag |-> tag, attrs |-> a, children |-> children]

---------------------------------------------------------------------------
(* Collaborators imported by FormGroup.tsx *)

\* generateElementId(): the n-th id handed out.
generateElementId(n) == Str(<<"el", ToString(n)>>)

\* classList('FormControl', className): truthy arguments joined by a space.
classList(base, extra) == IF Truthy(extra) THEN Str(base.v \o extra.v) ELSE base

\* The render function an extension registered under `key`, called with `arg`:
\* its result shows which function ran and what it was given.
RenderFunction(key, arg) == El("custom", arg, <<key>>)

---------------------------------------------------------------------------
(* FormGroup.tsx *)

BooleanSettingTypes == {S("bool"), S("checkbox"), S("switch"), S("boolean")}
SelectSettingTypes == {S("select"), S("dropdown"), S("selectdropdown")}
TextareaSettingTypes == {S("textarea")}
ColorPreviewSettingType == S("color-preview")
ImageUploadSettingType == S("image-upload")

\* Mutant of BindingRead: the cell is never read.
BindingRead_Never(bidi, current) == Null

\* const value = bidi ? bidi() : null;
BindingRead(bidi, current) == IF Truthy(bidi) THEN current ELSE Null

\* Mutant of SwitchState: the comparison with '0' is dropped.
SwitchState_Truthy(value) == Bool(Truthy(value))

\* state={!!value && value !== '0'}
SwitchState(value) == Bool(Truthy(value) /\ value # S("0"))

\* Mutant of SelectValue: `??` for `||`, only null and undefined fall back.
SelectValue_Nullish(value, defaultValue) ==
  IF value.t \in {"undefined", "null"} THEN defaultValue ELSE value

\* value={value || defaultValue}
SelectValue(value, defaultValue) == IF Truthy(value) THEN value ELSE defaultValue

\* Mutant of UploadAttrs: value is not taken out.
UploadAttrs_KeepValue(a) == a

\* const { value, ...otherAttrs } = attrs;
UploadAttrs(a) == Rest(a, {"value"})

\* Mutant of CustomArgument: the render function gets the stripped attributes.
CustomArgument_Stripped(thisAttrs, componentAttrs) == componentAttrs

\* customFieldComponents.get(type)(this.attrs)
CustomArgument(thisAttrs, componentAttrs) == thisAttrs

\* Mutant of MergeBaseClass: attrs aliases this.attrs, so the merge is done in place.
MergeBaseClass_InPlace(thisAttrs, a) ==
  LET merged == classList(S("FormControl"), Get(a, "className"))
  IN [thisAttrs |-> Put(thisAttrs, "className", merged),
      attrs |-> Put(a, "className", merged)]

\* attrs.className = classList('FormControl', attrs.className): attrs is the copy
\* the rest-destructuring made, so this.attrs keeps its className.
MergeBaseClass(thisAttrs, a) ==
  [thisAttrs |-> thisAttrs,
   attrs |-> Put(a, "className", classList(S("FormControl"), Get(a, "className")))]

\* Mutant of SetInputType: the assignment is missing.
SetInputType_Skip(a, type) == a

\* attrs.type = type
SetInputType(a, type) == Put(a, "type", type)

\* Mutant of ControlAttrs: aria-describedby names the input's own id.
ControlAttrs_SameId(inputId, helpTextId, bidi, a) ==
  Spread(("id" :> inputId) @@ ("aria-describedby" :> inputId) @@ ("bidi" :> bidi), a)

\* id={inputId} aria-describedby={helpTextId} bidi={bidi} {...attrs}
ControlAttrs(inputId, helpTextId, bidi, a) ==
  Spread(("id" :> inputId) @@ ("aria-describedby" :> helpTextId) @@ ("bidi" :> bidi), a)

\* Mutant of Bucket: the registry is consulted before the built-in types.
Bucket_CustomFirst(type, customFieldComponents) ==
  IF type \in customFieldComponents THEN "custom"
  ELSE IF type \in BooleanSettingTypes THEN "boolean"
  ELSE IF type \in SelectSettingTypes THEN "select"
  ELSE IF type = ImageUploadSettingType THEN "image-upload"
  ELSE IF type \in TextareaSettingTypes THEN "textarea"
  ELSE IF type = ColorPreviewSettingType THEN "color-preview"
  ELSE "generic-input"

\* The if / else-if chain of view(): the first condition that holds.
Bucket(type, customFieldComponents) ==
  IF type \in BooleanSettingTypes THEN "boolean"
  ELSE IF type \in SelectSettingTypes THEN "select"
  ELSE IF type = ImageUploadSettingType THEN "image-upload"
  ELSE IF type \in customFieldComponents THEN "custom"
  ELSE IF type \in TextareaSettingTypes THEN "textarea"
  ELSE IF type = ColorPreviewSettingType THEN "color-preview"
  ELSE "generic-input"

\* Mutant of Wrapper: the help block is rendered whether or not help was given.
Wrapper_AlwaysHelp(label, help, inputId, helpTextId, settingElement) ==
  El("div", "className" :> S("Form-group"),
     << IF Truthy(label) THEN El("label", "for" :> inputId, <<label>>) ELSE label,
        El("div", ("id" :> helpTextId) @@ ("className" :> S("helpText")), <<help>>),
        settingElement >>)

\* <div className="Form-group">{label && <label>}{help && <div>}{settingElement}</div>
Wrapper(label, help, inputId, helpTextId, settingElement) ==
  El("div", "className" :> S("Form-group"),
     << IF Truthy(label) THEN El("label", "for" :> inputId, <<label>>) ELSE label,
        IF Truthy(help)
          THEN El("div", ("id" :> helpTextId) @@ ("className" :> S("helpText")), <<help>>)
          ELSE help,
        settingElement >>)

\* The boolean branch: its own container, returned early.
SwitchGroup(label, help, bidi, value, a) ==
  El("div", "className" :> S("Form-group"),
     << El("Switch",
           Spread(("state" :> SwitchState(value)) @@ ("onchange" :> bidi), a),
           <<label>>),
        IF Truthy(help) THEN El("div", "className" :> S("helpText"), <<help>>) ELSE Null >>)

\* The select branch's settingElement.
SelectElement(inputId, helpTextId, bidi, value, a) ==
  LET defaultValue == Get(a, "default")
      options == Get(a, "options")
      otherAttrs == Rest(a, {"default", "options"})
  IN El("Select",
        Spread(("id" :> inputId) @@ ("aria-describedby" :> helpTextId)
                 @@ ("value" :> SelectValue(value, defaultValue))
                 @@ ("options" :> options) @@ ("onchange" :> bidi),
               otherAttrs),
        <<>>)

\* The image-upload branch's settingElement.
UploadElement(bidi, a) ==
  El("UploadImageButton", Spread("value" :> bidi, UploadAttrs(a)), <<>>)

\* view(): [vnode: the return value, thisAttrs: this.attrs when it returns,
\* invoked: the custom render functions it called]; ids are the two ids minted.
View(thisAttrs, current, customFieldComponents, ids) ==
  LET help == Get(thisAttrs, "help")
      type == Get(thisAttrs, "type")
      label == Get(thisAttrs, "label")
      bidi == Get(thisAttrs, "bidi")
      componentAttrs == Rest(thisAttrs, {"help", "type", "label", "bidi"})
      value == BindingRead(bidi, current)
      inputId == ids[1]
      helpTextId == ids[2]
      bucket == Bucket(type, customFieldComponents)
      merged == MergeBaseClass(thisAttrs, componentAttrs)
      wrapped(el, after) ==
        [vnode |-> Wrapper(label, help, inputId, helpTextId, el),
         thisAttrs |-> after, invoked |-> <<>>]
  IN CASE bucket = "boolean" ->
            [vnode |-> SwitchGroup(label, help, bidi, value, componentAttrs),
             thisAttrs |-> thisAttrs, invoked |-> <<>>]
       [] bucket = "select" ->
            wrapped(SelectElement(inputId, helpTextId, bidi, value, componentAttrs), thisAttrs)
       [] bucket = "image-upload" ->
            wrapped(UploadElement(bidi, componentAttrs), thisAttrs)
       [] bucket = "custom" ->
            LET arg == CustomArgument(thisAttrs, componentAttrs)
            IN [vnode |-> RenderFunction(type, arg),
                thisAttrs |-> thisAttrs, invoked |-> << <<type, arg>> >>]
       [] bucket = "textarea" ->
            wrapped(El("textarea", ControlAttrs(inputId, helpTextId, bidi, merged.attrs), <<>>),
                    merged.thisAttrs)
       [] bucket = "color-preview" ->
            wrapped(El("ColorPreviewInput",
                       ControlAttrs(inputId, helpTextId, bidi, merged.attrs), <<>>),
                    merged.thisAttrs)
       [] OTHER ->
            wrapped(El("input",
                       ControlAttrs(inputId, helpTextId, bidi, SetInputType(merged.attrs, type)),
                       <<>>),
                    merged.thisAttrs)

---------------------------------------------------------------------------
(* The inputs the model ranges over *)

Types ==
  BooleanSettingTypes \cup SelectSettingTypes \cup TextareaSettingTypes
    \cup {ColorPreviewSettingType, ImageUploadSettingType, S("email"),
          S("my-ext.setting-component")}

\* The value each optional key of a descriptor carries when it is present.
OptionalAttrs ==
  ("label" :> S("Name")) @@ ("help" :> S("Hint")) @@ ("bidi" :> BidiStream)
    @@ ("className" :> S("Setting-item")) @@ ("value" :> S("static"))
    @@ ("state" :> True) @@ ("id" :> S("my-id")) @@ ("aria-describedby" :> S("my-help"))

\* Keys a caller gives together: an id with the id of its description.
KeySets ==
  { ks \in SUBSET DOMAIN OptionalAttrs : ("id" \in ks) <=> ("aria-describedby" \in ks) }

\* SelectFieldComponentOptions: a select descriptor has its options and its default.
RequiredAttrs(ty) ==
  IF ty \in SelectSettingTypes
    THEN ("type" :> ty) @@ ("options" :> OptionsObject) @@ ("default" :> S("opt1"))
    ELSE "type" :> ty

Descriptors ==
  { RequiredAttrs(ty) @@ [k \in ks |-> OptionalAttrs[k]] : ty \in Types, ks \in KeySets }

\* What the settings stream may hold.
CellValues == {Null, EmptyString, S("0"), S("1"), False, True, Zero}

\* The keys each extension registers render functions under, in the order the
\* extensions boot: built-in tokens of every bucket and tokens of their own.
Extensions ==
  << {S("bool"), S("dropdown"), ImageUploadSettingType},
     {S("textarea"), ColorPreviewSettingType},
     {S("email"), S("my-ext.setting-component")} >>

NotRendered == El("none", <<>>, <<>>)

---------------------------------------------------------------------------
(* The state machine *)

Init ==
  /\ attrs \in Descriptors
  /\ cell \in CellValues
  /\ registry = {}
  /\ nextId = 0
  /\ vnode = NotRendered
  /\ invoked = <<>>
  /\ changed = TRUE

\* One render pass: view() on the current descriptor, cell and registry.
Render ==
  /\ nextId < 2 * MaxRenders
  /\ LET r == View(attrs, cell, registry,
                   <<generateElementId(nextId), generateElementId(nextId + 1)>>)
     IN /\ vnode' = r.vnode
        /\ attrs' = r.thisAttrs
        /\ invoked' = r.invoked
  /\ nextId' = nextId + 2
  /\ changed' = FALSE
  /\ UNCHANGED <<cell, registry>>

\* bidi(v): the leaf widget's change callback, or the settings layer, writes the cell.
Write(v) ==
  /\ cell' = v
  /\ changed' = TRUE
  /\ UNCHANGED <<attrs, registry, nextId, vnode, invoked>>

\* The next extension boots and adds its render functions to the ItemList
\* customFieldComponents() returns.
Register(i) ==
  /\ Extensions[i] \cap registry = {}
  /\ \A j \in 1..(i - 1) : Extensions[j] \subseteq registry
  /\ registry' = registry \cup Extensions[i]
  /\ changed' = TRUE
  /\ UNCHANGED <<attrs, cell, nextId, vnode, invoked>>

Next ==
  \/ Render
  \/ \E v \in CellValues : Write(v)
  \/ \E i \in DOMAIN Extensions : Register(i)

Spec == Init /\ [][Next]_vars

---------------------------------------------------------------------------
(* Reading the state and the rendered tree *)

\* A vnode, as opposed to a plain value among the children.
IsElement(node) == "tag" \in DOMAIN node

\* vnode is what view() returns for the present descriptor, cell and registry.
Fresh == nextId > 0 /\ ~changed

\* A step that is a render pass.
IsRenderStep == nextId' # nextId

Has(key) == key \in DOMAIN attrs
FieldType == attrs["type"]

\* The bucket the rendered tree shows.
ShownBucket ==
  IF vnode.tag = "custom" THEN "custom"
  ELSE IF vnode.tag # "div" THEN "none"
  ELSE IF Len(vnode.children) = 2 THEN
    (IF IsElement(vnode.children[1]) /\ vnode.children[1].tag = "Switch"
       THEN "boolean" ELSE "none")
  ELSE IF Len(vnode.children) # 3 \/ ~IsElement(vnode.children[3]) THEN "none"
  ELSE LET tag == vnode.children[3].tag
       IN CASE tag = "Select" -> "select"
            [] tag = "UploadImageButton" -> "image-upload"
            [] tag = "textarea" -> "textarea"
            [] tag = "ColorPreviewInput" -> "color-preview"
            [] tag = "input" -> "generic-input"
            [] OTHER -> "none"

WrapperBuckets == {"select", "image-upload", "textarea", "color-preview", "generic-input"}
InputBuckets == {"textarea", "color-preview", "generic-input"}

\* The toggle of the boolean container, the control of the common container.
Toggle == vnode.children[1]
Control == vnode.children[3]

\* The ids the last render pass minted.
LastInputId == generateElementId(nextId - 2)
LastHelpTextId == generateElementId(nextId - 1)

\* A tree with every generated id replaced by the same placeholder.
IsGeneratedId(x) == x.t = "string" /\ Len(x.v) = 2 /\ x.v[1] = "el"

RECURSIVE StripIds(_)
StripIds(node) ==
  IF IsElement(node)
    THEN El(node.tag,
            [k \in DOMAIN node.attrs |->
               IF IsGeneratedId(node.attrs[k]) THEN S("generated") ELSE node.attrs[k]],
            [i \in DOMAIN node.children |-> StripIds(node.children[i])])
    ELSE node

\* "Empty" as the claims list it: absent, null, the empty string, false or 0.
IsEmpty(x) == x \in {Undefined, Null, EmptyString, False, Zero}

\* The toggle state and the dropdown value the claims give for a bound value.
ClaimedToggleState(bound) == Bool(~IsEmpty(bound) /\ bound # S("0"))
ClaimedSelectValue(bound) == IF ~IsEmpty(bound) THEN bound ELSE Get(attrs, "default")
BoundValue == IF Has("bidi") THEN cell ELSE Null

---------------------------------------------------------------------------
(* C1 *)

\* The bucket C1's precedence order gives the descriptor's type.
ClaimedBucket ==
  IF FieldType \in {S("bool"), S("checkbox"), S("switch"), S("boolean")} THEN "boolean"
  ELSE IF FieldType \in {S("select"), S("dropdown"), S("selectdropdown")} THEN "select"
  ELSE IF FieldType = S("image-upload") THEN "image-upload"
  ELSE IF FieldType \in registry THEN "custom"
  ELSE IF FieldType = S("textarea") THEN "textarea"
  ELSE IF FieldType = S("color-preview") THEN "color-preview"
  ELSE "generic-input"

\* C1: for every type token and every registry, view renders exactly the first
\* matching bucket in the order boolean, select, image-upload, custom, textarea,
\* color-preview, generic-input; a render function registered under a boolean,
\* select or image-upload token is never called, one registered under any other
\* token is called in place of the built-in bucket.
C1_FirstMatchDispatch ==
  Fresh =>
    /\ ShownBucket = ClaimedBucket
    /\ (FieldType \in registry /\ ClaimedBucket \in {"boolean", "select", "image-upload"})
         => (invoked = <<>> /\ vnode.tag # "custom")
    /\ (FieldType \in registry /\ ClaimedBucket \notin {"boolean", "select", "image-upload"})
         => (Len(invoked) = 1 /\ invoked[1][1] = FieldType /\ vnode.tag = "custom")
    /\ FieldType \notin registry => invoked = <<>>

\* A render function registered under "bool" was passed over for the toggle.
C1_Witness ==
  /\ Fresh
  /\ FieldType = S("bool")
  /\ S("bool") \in registry
  /\ ShownBucket = "boolean"
  /\ invoked = <<>>

---------------------------------------------------------------------------
(* C2 *)

\* C2: a render pass that takes the custom bucket calls the registered render
\* function exactly once, with the descriptor as it was given (every key kept,
\* none added or changed), and returns that function's result as it is.
C2_CustomGetsOriginalDescriptor ==
  [][(IsRenderStep /\ ClaimedBucket = "custom") =>
       /\ invoked' = << <<FieldType, attrs>> >>
       /\ DOMAIN invoked'[1][2] = DOMAIN attrs
       /\ Get(invoked'[1][2], "className") = Get(attrs, "className")
       /\ vnode' = RenderFunction(FieldType, attrs)
       /\ ShownBucket' = "custom"
    ]_vars

\* The custom renderer ran on a descriptor with type, label, help, binding and
\* a className of its own.
C2_Witness ==
  /\ Fresh
  /\ ShownBucket = "custom"
  /\ Len(invoked) = 1
  /\ {"type", "label", "help", "bidi", "className"} \subseteq DOMAIN invoked[1][2]
  /\ invoked[1][2]["className"] = S("Setting-item")

---------------------------------------------------------------------------
(* C3 *)

\* C3 as stated: for every descriptor of a boolean type the toggle's state is
\* true iff the bound value is non-empty and not "0" (false with no binding).
C3_ToggleStateOfEveryDescriptor ==
  (Fresh /\ ClaimedBucket = "boolean") =>
    Toggle.attrs["state"] = ClaimedToggleState(BoundValue)

\* C3 amended: that holds for every descriptor that carries no `state` key; a
\* descriptor's own `state` key is spread after it and is what the toggle gets.
C3_ToggleStateUnlessGiven ==
  (Fresh /\ ClaimedBucket = "boolean") =>
    Toggle.attrs["state"] =
      IF Has("state") THEN attrs["state"] ELSE ClaimedToggleState(BoundValue)

\* A bound "0" rendered as an unchecked toggle.
C3_Witness ==
  /\ Fresh
  /\ ClaimedBucket = "boolean"
  /\ Has("bidi") /\ ~Has("state")
  /\ cell = S("0")
  /\ Toggle.attrs["state"] = False

---------------------------------------------------------------------------
(* C4 *)

\* C4 as stated: for every descriptor of a select type, whatever other keys it
\* carries, the dropdown's value is the bound value when non-empty and the
\* descriptor's default otherwise.
C4_SelectValueWhateverKeys ==
  (Fresh /\ ClaimedBucket = "select") =>
    Control.attrs["value"] = ClaimedSelectValue(BoundValue)

\* C4 amended: that holds for every descriptor that carries no `value` key; a
\* descriptor's own `value` key is spread after it and is what the dropdown gets.
C4_SelectValueUnlessGiven ==
  (Fresh /\ ClaimedBucket = "select") =>
    Control.attrs["value"] =
      IF Has("value") THEN attrs["value"] ELSE ClaimedSelectValue(BoundValue)

\* An empty bound string rendered as the default.
C4_Witness ==
  /\ Fresh
  /\ ClaimedBucket = "select"
  /\ Has("bidi") /\ ~Has("value")
  /\ cell = EmptyString
  /\ Control.attrs["value"] = S("opt1")

---------------------------------------------------------------------------
(* C5 *)

\* C5: for every image-upload descriptor the upload widget's value is the
\* binding itself, never the descriptor's `value` key, and every other key
\* besides type, label, help and the binding is forwarded unchanged.
C5_UploadGetsBinding ==
  (Fresh /\ ClaimedBucket = "image-upload") =>
    /\ Control.tag = "UploadImageButton"
    /\ Control.attrs["value"] = Get(attrs, "bidi")
    /\ Control.attrs["value"] # S("static")
    /\ DOMAIN Control.attrs =
         (DOMAIN attrs \ {"type", "label", "help", "bidi"}) \cup {"value"}
    /\ \A k \in DOMAIN attrs \ {"type", "label", "help", "bidi", "value"} :
         Control.attrs[k] = attrs[k]

\* An image-upload descriptor with a `value` key, a binding and a className.
C5_Witness ==
  /\ Fresh
  /\ ClaimedBucket = "image-upload"
  /\ Has("value") /\ Has("bidi") /\ Has("className")
  /\ Control.attrs["value"] = BidiStream

---------------------------------------------------------------------------
(* C6 *)

\* C6: in the generic-input bucket the element's type attribute is the
\* descriptor's type token; in the textarea and color-preview buckets the
\* element has no type attribute.
C6_TypeAttribute ==
  Fresh =>
    /\ ClaimedBucket = "generic-input" =>
         (Control.tag = "input" /\ Get(Control.attrs, "type") = FieldType)
    /\ ClaimedBucket \in {"textarea", "color-preview"} =>
         (Control.tag # "input" /\ "type" \notin DOMAIN Control.attrs)

\* An email input.
C6_Witness ==
  /\ Fresh
  /\ FieldType = S("email")
  /\ ShownBucket = "generic-input"
  /\ Control.attrs["type"] = S("email")

---------------------------------------------------------------------------
(* C7 *)

\* C7: the select, image-upload, textarea, color-preview and generic-input
\* buckets return one container whose children are, in order, the label element
\* (present iff a label was given), the help block (present iff help was given)
\* and the control; the boolean bucket returns its own container, with the
\* label inside the toggle, no label element, and a help block iff help was given.
C7_CommonWrapper ==
  Fresh =>
    /\ ClaimedBucket \in WrapperBuckets =>
         /\ vnode.tag = "div" /\ Len(vnode.children) = 3
         /\ IsElement(vnode.children[1]) <=> Has("label")
         /\ Has("label") =>
              (vnode.children[1].tag = "label"
                 /\ vnode.children[1].children = <<attrs["label"]>>)
         /\ IsElement(vnode.children[2]) <=> Has("help")
         /\ Has("help") =>
              (vnode.children[2].tag = "div"
                 /\ vnode.children[2].attrs["className"] = S("helpText")
                 /\ vnode.children[2].children = <<attrs["help"]>>)
         /\ IsElement(Control) /\ Control.tag \notin {"label", "div"}
    /\ ClaimedBucket = "boolean" =>
         /\ vnode.tag = "div" /\ Len(vnode.children) = 2
         /\ Toggle.tag = "Switch"
         /\ Toggle.children = <<Get(attrs, "label")>>
         /\ IsElement(vnode.children[2]) <=> Has("help")
         /\ Has("help") =>
              (vnode.children[2].tag = "div" /\ vnode.children[2].children = <<attrs["help"]>>)

\* A wrapped control with a label and no help block.
C7_Witness ==
  /\ Fresh
  /\ ShownBucket \in WrapperBuckets
  /\ Has("label") /\ ~Has("help")
  /\ IsElement(vnode.children[1]) /\ ~IsElement(vnode.children[2])

---------------------------------------------------------------------------
(* C8 *)

\* C8: a render pass leaves the descriptor as it was; when nothing changed
\* since the previous pass its result equals the previous one once the
\* generated ids are ignored; the two ids of one pass differ from each other
\* and from those of the previous pass.
C8_RenderIdempotent ==
  [][IsRenderStep =>
       /\ attrs' = attrs
       /\ Fresh => StripIds(vnode') = StripIds(vnode)
       /\ (ShownBucket' \in WrapperBuckets /\ Has("label") /\ Has("help")) =>
            vnode'.children[1].attrs["for"] # vnode'.children[2].attrs["id"]
       /\ (Fresh /\ ShownBucket' \in WrapperBuckets /\ Has("label")) =>
            vnode'.children[1].attrs["for"] # vnode.children[1].attrs["for"]
    ]_vars

\* A second pass over a descriptor with a className that went through the
\* base-class merge: the control has the merged class, the descriptor its own.
C8_Witness ==
  /\ Fresh
  /\ nextId >= 4
  /\ ShownBucket \in InputBuckets
  /\ Control.attrs["className"] = Str(<<"FormControl", "Setting-item">>)
  /\ attrs["className"] = S("Setting-item")

---------------------------------------------------------------------------
(* C9 *)

\* C9 as stated: in the textarea, color-preview and generic-input buckets, for
\* every descriptor, the control receives the binding, its id is the generated
\* inputId the label names, and its aria-describedby is the generated
\* helpTextId the help block has as id.
C9_ControlIdsOfEveryDescriptor ==
  (Fresh /\ ClaimedBucket \in InputBuckets) =>
    /\ Control.attrs["bidi"] = Get(attrs, "bidi")
    /\ Control.attrs["id"] = LastInputId
    /\ Control.attrs["aria-describedby"] = LastHelpTextId
    /\ Has("label") => vnode.children[1].attrs["for"] = Control.attrs["id"]
    /\ Has("help") => vnode.children[2].attrs["id"] = Control.attrs["aria-describedby"]

\* C9 amended: the control receives the binding; the label names the generated
\* inputId and the help block has the generated helpTextId; the control's id
\* and aria-describedby are those two ids for every descriptor that carries no
\* `id` / `aria-describedby` key, and the descriptor's own otherwise.
C9_ControlIdsUnlessGiven ==
  (Fresh /\ ClaimedBucket \in InputBuckets) =>
    /\ Control.attrs["bidi"] = Get(attrs, "bidi")
    /\ Control.attrs["id"] = IF Has("id") THEN attrs["id"] ELSE LastInputId
    /\ Control.attrs["aria-describedby"] =
         IF Has("aria-describedby") THEN attrs["aria-describedby"] ELSE LastHelpTextId
    /\ Has("label") => vnode.children[1].attrs["for"] = LastInputId
    /\ Has("help") => vnode.children[2].attrs["id"] = LastHelpTextId

\* A labelled, described, bound textarea linked through the generated ids.
C9_Witness ==
  /\ Fresh
  /\ ShownBucket = "textarea"
  /\ Has("label") /\ Has("help") /\ Has("bidi") /\ ~Has("id")
  /\ vnode.children[1].attrs["for"] = Control.attrs["id"]
  /\ vnode.children[2].attrs["id"] = Control.attrs["aria-describedby"]
  /\ Control.attrs["id"] # Control.attrs["aria-describedby"]

---------------------------------------------------------------------------
(* C10 *)

\* C10 as stated: every render pass leaves the binding as it is and displays
\* (toggle state, dropdown value) what the binding holds at that moment, that
\* is what the last write before the pass left there.
C10_RenderShowsLastWrite ==
  [][(IsRenderStep /\ Has("bidi")) =>
       /\ cell' = cell
       /\ ClaimedBucket = "boolean" =>
            vnode'.children[1].attrs["state"] = ClaimedToggleState(cell)
       /\ ClaimedBucket = "select" =>
            vnode'.children[3].attrs["value"] = ClaimedSelectValue(cell)
    ]_vars

\* C10 amended: the same, for the descriptors that carry no `state` (boolean
\* bucket) or `value` (select bucket) key of their own.
C10_RenderShowsLastWriteUnlessGiven ==
  [][(IsRenderStep /\ Has("bidi")) =>
       /\ cell' = cell
       /\ (ClaimedBucket = "boolean" /\ ~Has("state")) =>
            vnode'.children[1].attrs["state"] = ClaimedToggleState(cell)
       /\ (ClaimedBucket = "select" /\ ~Has("value")) =>
            vnode'.children[3].attrs["value"] = ClaimedSelectValue(cell)
    ]_vars

\* A second render pass showing the value written to the binding.
C10_Witness ==
  /\ Fresh
  /\ nextId >= 4
  /\ Has("bidi") /\ ~Has("value")
  /\ ClaimedBucket = "select"
  /\ cell = S("1")
  /\ Control.attrs["value"] = S("1")

====
